---- MODULE Spec2Model ----
(***************************************************************************)
(* Me TV remote-control subsystem (src/src/remote_control.rs).             *)
(*                                                                         *)
(* Two threads of the program are modelled: the thread that executes       *)
(* run() (initial scan, then the hotplug watcher loop) and the thread that *)
(* executes rc_event_listener() (the event poller).  They share REMOTES,   *)
(* a Mutex<Vec<Arc<RemoteControl>>>, and send keystrokes on the channel    *)
(* to_cw.  The GTK thread is modelled by the control window and its        *)
(* buttons (src/src/control_window.rs, src/src/control_window_button.rs).  *)
(*                                                                         *)
(* The operating system is modelled by what the code reads from it:        *)
(*   sysfs    the entries /sys/class/rc/<rc>/<lirc>, pairs <<rc, lirc>>    *)
(*   evFile   for each input device, the final component of its            *)
(*            /dev/input/by-path file ("" when the device is absent)       *)
(*   kfd      the process's descriptor table                               *)
(*            (a descriptor records whether it holds EVIOCGRAB)            *)
(***************************************************************************)
EXTENDS FiniteSets, Integers, Sequences, TLC

\* Bounds of the model.
MaxFd == 2          \* descriptors the process may have open on event devices
MaxEnvChanges == 1  \* changes of sysfs and of /dev/input/by-path during a run
MaxEvents == 2      \* input-event records the kernel queues during a run

\* Program constants.
EV_KEY == 1         \* input_event_codes::EV_KEY
ReadMax == 64       \* records asked for by one read
ItemSize == 24      \* size_of::<libc::input_event>() on a 64-bit target
U16 == 65536

LircNames == {"lirc0", "lirc1"}
OtherNames == {"ttyUSB0"}
RcNodes == {"rc0", "rc1", "rc2"}

Fds == 1..MaxFd

(***************************************************************************)
(* The symlink targets of /sys/class/rc/<rc>.  A path is the sequence of   *)
(* its components; a component is the sequence of the pieces that          *)
(* str::split("-") yields for it.  rc0 and rc1 are the receivers of two    *)
(* USB tuners (the targets of the unit tests), rc2 is a receiver that is   *)
(* not on the USB bus (the kernel's rc-loopback device).                   *)
(***************************************************************************)
LinkTarget(rc) ==
    CASE rc = "rc0" -> << <<"..">>, <<"..">>, <<"devices">>, <<"pci0000:00">>,
                          <<"0000:00:14.0">>, <<"usb2">>, <<"2", "1">>,
                          <<"2", "1:1.0">>, <<"rc">>, <<"rc0">> >>
      [] rc = "rc1" -> << <<"..">>, <<"..">>, <<"devices">>, <<"pci0000:00">>,
                          <<"0000:00:14.0">>, <<"usb2">>, <<"2", "2">>,
                          <<"2", "2:1.0">>, <<"rc">>, <<"rc1">> >>
      [] OTHER      -> << <<"..">>, <<"..">>, <<"devices">>, <<"virtual">>,
                          <<"rc">>, <<"rc2">> >>

\* A file name of <rc>/device/dvb, as the sequence of its characters.
DvbFileName(adapter, frontend) ==
    << "d", "v", "b" >> \o adapter \o
    << ".", "f", "r", "o", "n", "t", "e", "n", "d" >> \o frontend

\* The entries of <rc>/device/dvb that the glob dvb*.frontend* yields, in
\* enumeration order: rc0 is the receiver of a tuner with two adapters,
\* the other receivers have no dvb directory.
DvbEntries(rc) ==
    CASE rc = "rc0" -> << DvbFileName(<< "0" >>, << "0" >>),
                          DvbFileName(<< "1" >>, << "0" >>) >>
      [] OTHER      -> << >>

\* An input device is named by the part of its by-path file name that does
\* not depend on the chipset: the PCI id and the USB bus suffix.
DevA == [pci |-> <<"0000:00:14.0">>, bus |-> "1:1.0"]
DevB == [pci |-> <<"0000:00:14.0">>, bus |-> "2:1.0"]
Devices == {DevA, DevB}
Extensions == {"-event", "-event-ir"}

VARIABLES
    REMOTES,          \* the Vec behind the mutex
    lock,             \* holder of the mutex: "none", "watcher", "poller"
    poisoned,         \* the mutex is poisoned
    wpc,              \* position of the run() thread
    wnew,             \* the RemoteControl under construction
    scanRest,         \* lirc paths of the initial scan not yet visited
    ppc,              \* position of the rc_event_listener() thread
    remote_controls,  \* the poller's snapshot
    pollfds,          \* the poller's wait-set
    to_cw,            \* the messages sent on the channel to the GUI
    sysfs, evFile, inputGroup, kfd, strong,
    envChanges,       \* environment changes so far
    events,           \* records queued so far
    control_window,   \* the ControlWindow of the GTK thread
    gtk_main          \* the GTK thread: "new", "running", or the panic message

vars == << REMOTES, lock, poisoned, wpc, wnew, scanRest, ppc,
           remote_controls, pollfds, to_cw,
           sysfs, evFile, inputGroup, kfd, strong, envChanges, events,
           control_window, gtk_main >>

remoteVars == << REMOTES, lock, poisoned, wpc, wnew, scanRest, ppc,
                 remote_controls, pollfds, to_cw,
                 sysfs, evFile, inputGroup, kfd, strong, envChanges, events >>

guiVars == << control_window, gtk_main >>

progVars == << REMOTES, lock, poisoned, wpc, wnew, scanRest, ppc,
               remote_controls, pollfds, to_cw >>

Closed == [open |-> FALSE, dev |-> DevA, hup |-> FALSE, grabbed |-> FALSE,
           q |-> << >>, part |-> 0]
NoRemote == [frontend_ids |-> << >>, lirc_path |-> "", sys_rc_path |-> "",
             device_event_path |-> [pci |-> << >>, bus |-> "", ext |-> ""],
             device_file |-> 0]

Range(s) == {s[i] : i \in DOMAIN s}
Min(S) == CHOOSE x \in S : \A y \in S : x <= y

(***************************************************************************)
(* Path Resolver                                                           *)
(***************************************************************************)

\* The resolution with "at least one match" in place of "exactly one".
get_sys_path_first_match(lirc_path) ==
    LET rc_paths == {e \in sysfs : e[2] = lirc_path}
    IN  IF rc_paths # {}
        THEN [ok |-> TRUE, path |-> (CHOOSE e \in rc_paths : TRUE)[1]]
        ELSE [ok |-> FALSE, path |-> ""]

\* get_sys_path_from_lirc_path: the glob over /sys/class/rc/rc*/lirc*,
\* filtered by final component; exactly one match gives its parent.
get_sys_path_from_lirc_path(lirc_path) ==
    LET rc_paths == {e \in sysfs : e[2] = lirc_path}
    IN  IF Cardinality(rc_paths) = 1
        THEN [ok |-> TRUE, path |-> (CHOOSE e \in rc_paths : TRUE)[1]]
        ELSE [ok |-> FALSE, path |-> ""]

\* Path::exists on a /dev/input/by-path name.
PathExists(p) ==
    /\ [pci |-> p.pci, bus |-> p.bus] \in Devices
    /\ evFile[[pci |-> p.pci, bus |-> p.bus]] = p.ext

\* get_rc_event_file_final_component
get_rc_event_file_final_component(base) ==
    IF PathExists([pci |-> base.pci, bus |-> base.bus, ext |-> "-event-ir"])
    THEN "-event-ir" ELSE "-event"

\* create_event_path_from_sys_path: panics on a failed assertion or on an
\* index out of range, else the path "/dev/input/by-path/pci-" + pci +
\* "-usb-0:" + bus + ext, kept as its three variable parts.
create_event_path_from_sys_path(path) ==
    LET n == Len(path)
    IN  IF \/ n < 2
           \/ path[1] # <<"..">>
           \/ path[2] # <<"..">>
           \/ path[n - 1] # <<"rc">>
           \/ n < 5
           \/ Len(path[n - 2]) < 2
        THEN [panic |-> TRUE, path |-> NoRemote.device_event_path]
        ELSE LET base == [pci |-> path[5], bus |-> path[n - 2][2]]
             IN  [panic |-> FALSE,
                  path |-> [pci |-> base.pci, bus |-> base.bus,
                            ext |-> get_rc_event_file_final_component(base)]]

\* The decimal digits and their values.
DigitValue(c) ==
    CASE c = "0" -> 0 [] c = "1" -> 1 [] c = "2" -> 2 [] c = "3" -> 3
      [] c = "4" -> 4 [] c = "5" -> 5 [] c = "6" -> 6 [] c = "7" -> 7
      [] c = "8" -> 8 [] c = "9" -> 9 [] OTHER -> -1

\* [0-9]+ at position i of name: the length of the longest run of digits.
RECURSIVE DigitRun(_, _)
DigitRun(name, i) ==
    IF i > Len(name) \/ DigitValue(name[i]) < 0 THEN 0
    ELSE 1 + DigitRun(name, i + 1)

\* str::parse::<u8>() of a run of digits: the number, or -1 for Err (the
\* number does not fit in a u8).
RECURSIVE ParseU8(_)
ParseU8(digits) ==
    IF digits = << >> THEN 0
    ELSE LET front == ParseU8(SubSeq(digits, 1, Len(digits) - 1))
             v == 10 * front + DigitValue(digits[Len(digits)])
         IN  IF front < 0 \/ v > 255 THEN -1 ELSE v

\* The match of dvb([0-9]+)\.frontend([0-9]+) that starts at position i of
\* name: the two captures, or ok = FALSE when there is no match there.
RegexMatchAt(name, i) ==
    LET a == DigitRun(name, i + 3)
        j == i + 3 + a
        f == DigitRun(name, j + 9)
    IN  IF /\ i + 2 <= Len(name)
           /\ SubSeq(name, i, i + 2) = << "d", "v", "b" >>
           /\ a >= 1
           /\ j + 8 <= Len(name)
           /\ SubSeq(name, j, j + 8) =
                  << ".", "f", "r", "o", "n", "t", "e", "n", "d" >>
           /\ f >= 1
        THEN [ok |-> TRUE, adapter |-> SubSeq(name, i + 3, j - 1),
              frontend |-> SubSeq(name, j + 9, j + 8 + f)]
        ELSE [ok |-> FALSE, adapter |-> << >>, frontend |-> << >>]

\* re.captures(file name): the leftmost match.
RegexCaptures(name) ==
    LET starts == {i \in 1..Len(name) : RegexMatchAt(name, i).ok}
    IN  IF starts = {} THEN RegexMatchAt(name, 0)
        ELSE RegexMatchAt(name, Min(starts))

\* The closure of extract_frontend_from_paths for one path: the FrontendId,
\* or a panic of one of the unwrap() calls.
FrontendOfPath(name) ==
    LET caps == RegexCaptures(name)
        adapter == ParseU8(caps.adapter)
        frontend == ParseU8(caps.frontend)
    IN  IF ~caps.ok \/ adapter < 0 \/ frontend < 0
        THEN [panic |-> TRUE, id |-> [adapter |-> 0, frontend |-> 0]]
        ELSE [panic |-> FALSE, id |-> [adapter |-> adapter, frontend |-> frontend]]

\* The extraction with the two captures taken in the wrong order.
extract_frontend_swapped(paths) ==
    [panic |-> \E i \in 1..Len(paths) : FrontendOfPath(paths[i]).panic,
     rv |-> [i \in 1..Len(paths) |->
                [adapter |-> FrontendOfPath(paths[i]).id.frontend,
                 frontend |-> FrontendOfPath(paths[i]).id.adapter]]]

\* extract_frontend_from_paths: a path is modelled by its file name, which
\* is all the function reads of it.
extract_frontend_from_paths(paths) ==
    [panic |-> \E i \in 1..Len(paths) : FrontendOfPath(paths[i]).panic,
     rv |-> [i \in 1..Len(paths) |-> FrontendOfPath(paths[i]).id]]

\* find_frontends_for_remote_control
find_frontends_for_remote_control(sys_rc_path) ==
    extract_frontend_from_paths(DvbEntries(sys_rc_path))

(***************************************************************************)
(* The kernel and the Rust runtime, as far as the code relies on them.     *)
(* A kernel state k is the record [kfd, strong].                           *)
(***************************************************************************)
Kernel == [kfd |-> kfd, strong |-> strong]

DevOf(p) == [pci |-> p.pci, bus |-> p.bus]

FreeFds(k) == {fd \in Fds : ~k.kfd[fd].open}

\* The descriptors that hold the grab of the device now present as d.
GrabHolders(k, d) ==
    {fd \in Fds : /\ k.kfd[fd].open
                  /\ k.kfd[fd].dev = d
                  /\ ~k.kfd[fd].hup
                  /\ k.kfd[fd].grabbed}

\* Dropping a File closes its descriptor; closing the descriptor that holds
\* the grab of a device releases the grab.
FileClose(k, fd) ==
    [k EXCEPT !.kfd[fd] = Closed]

\* ioctl_eviocgrab(fd, 1): EBUSY when another descriptor holds the grab.
ioctl_eviocgrab(k, fd) ==
    IF GrabHolders(k, k.kfd[fd].dev) \ {fd} # {}
    THEN [ok |-> FALSE, k |-> k]
    ELSE [ok |-> TRUE, k |-> [k EXCEPT !.kfd[fd].grabbed = TRUE]]

\* OpenOptions::new().read(true).open(path): the lowest free descriptor.
FileOpen(k, d) ==
    IF ~inputGroup \/ FreeFds(k) = {}
    THEN [ok |-> FALSE, fd |-> 0, k |-> k]
    ELSE LET fd == Min(FreeFds(k))
         IN  [ok |-> TRUE, fd |-> fd,
              k |-> [k EXCEPT !.kfd[fd] = [open |-> TRUE, dev |-> d, hup |-> FALSE,
                                          grabbed |-> FALSE, q |-> << >>,
                                          part |-> 0]]]

\* An Arc whose last reference goes without the File being closed.
ArcDropLeak(k, h) ==
    [k EXCEPT !.strong[h.device_file] = @ - 1]

\* Dropping one Arc<RemoteControl>: the RemoteControl, and with it the
\* File, is dropped when the last strong reference goes.
ArcDrop(k, h) ==
    LET fd == h.device_file
    IN  IF k.strong[fd] = 1
        THEN FileClose([k EXCEPT !.strong[fd] = 0], fd)
        ELSE [k EXCEPT !.strong[fd] = @ - 1]

RECURSIVE DropVec(_, _)
DropVec(k, v) ==
    IF v = << >> THEN k ELSE DropVec(ArcDrop(k, Head(v)), Tail(v))

\* A snapshot that copies the handles without taking a reference to them.
CloneVecBorrowed(k, v) == k

\* Cloning every Arc of a Vec.
RECURSIVE CloneVec(_, _)
CloneVec(k, v) ==
    IF v = << >> THEN k
    ELSE CloneVec([k EXCEPT !.strong[Head(v).device_file] = @ + 1], Tail(v))

(***************************************************************************)
(* Device Handle                                                           *)
(***************************************************************************)

\* RemoteControl::new up to the loop that waits for the event file.
\* vanished: the sysfs node went away after the glob saw it (the device was
\* unplugged), so that read_link fails.
RemoteControlNewStart(lirc_path, vanished) ==
    LET sp == get_sys_path_from_lirc_path(lirc_path)
    IN  IF ~sp.ok THEN [kind |-> "err", why |-> "sys", rc |-> NoRemote]
        ELSE IF vanished THEN [kind |-> "err", why |-> "link", rc |-> NoRemote]
        ELSE LET frontend_ids == find_frontends_for_remote_control(sp.path)
                 ev == create_event_path_from_sys_path(LinkTarget(sp.path))
             IN  IF frontend_ids.panic \/ ev.panic
                 THEN [kind |-> "panic", why |-> "", rc |-> NoRemote]
                 ELSE [kind |-> "wait", why |-> "",
                       rc |-> [frontend_ids |-> frontend_ids.rv,
                               lirc_path |-> lirc_path,
                               sys_rc_path |-> sp.path,
                               device_event_path |-> ev.path,
                               device_file |-> 0]]

\* RemoteControl::new with the file left open when the grab fails.
RemoteControlNewFinishKeepsFile(k, rc) ==
    LET o == FileOpen(k, DevOf(rc.device_event_path))
    IN  IF ~o.ok
        THEN [ok |-> FALSE, why |-> "open", k |-> k, rc |-> rc]
        ELSE LET g == ioctl_eviocgrab(o.k, o.fd)
             IN  IF ~g.ok
                 THEN [ok |-> FALSE, why |-> "grab", k |-> g.k, rc |-> rc]
                 ELSE [ok |-> TRUE, why |-> "", k |-> g.k,
                       rc |-> [rc EXCEPT !.device_file = o.fd]]

\* RemoteControl::new with the result of the grab ignored.
RemoteControlNewFinishNoGrabCheck(k, rc) ==
    LET o == FileOpen(k, DevOf(rc.device_event_path))
    IN  IF ~o.ok
        THEN [ok |-> FALSE, why |-> "open", k |-> k, rc |-> rc]
        ELSE [ok |-> TRUE, why |-> "", k |-> ioctl_eviocgrab(o.k, o.fd).k,
              rc |-> [rc EXCEPT !.device_file = o.fd]]

\* RemoteControl::new after the wait: open the event file and grab it.  A
\* failed grab returns Err, which drops (closes) the file just opened.
RemoteControlNewFinish(k, rc) ==
    LET o == FileOpen(k, DevOf(rc.device_event_path))
    IN  IF ~o.ok
        THEN [ok |-> FALSE, why |-> "open", k |-> k, rc |-> rc]
        ELSE LET g == ioctl_eviocgrab(o.k, o.fd)
             IN  IF ~g.ok
                 THEN [ok |-> FALSE, why |-> "grab", k |-> FileClose(g.k, o.fd),
                       rc |-> rc]
                 ELSE [ok |-> TRUE, why |-> "", k |-> g.k,
                       rc |-> [rc EXCEPT !.device_file = o.fd]]

\* The new handle put in front of the others.
PushNewFront(k, data, rc) ==
    [k |-> [k EXCEPT !.strong[rc.device_file] = 1], data |-> << rc >> \o data]

\* data.push(Arc::new(rc))
PushNew(k, data, rc) ==
    [k |-> [k EXCEPT !.strong[rc.device_file] = 1], data |-> Append(data, rc)]

\* Removal of the first matching element only.
RECURSIVE RetainFirstMatch(_, _)
RetainFirstMatch(data, lirc_path) ==
    IF data = << >> THEN [kept |-> << >>, removed |-> << >>]
    ELSE IF Head(data).lirc_path = lirc_path
    THEN [kept |-> Tail(data), removed |-> << Head(data) >>]
    ELSE LET r == RetainFirstMatch(Tail(data), lirc_path)
         IN  [r EXCEPT !.kept = << Head(data) >> \o @]

\* Vec::retain(|d| d.lirc_path != lirc_path): the elements kept, in order,
\* and the elements removed, which are dropped.
RECURSIVE Retain(_, _)
Retain(data, lirc_path) ==
    IF data = << >> THEN [kept |-> << >>, removed |-> << >>]
    ELSE LET r == Retain(Tail(data), lirc_path)
         IN  IF Head(data).lirc_path # lirc_path
             THEN [r EXCEPT !.kept = << Head(data) >> \o @]
             ELSE [r EXCEPT !.removed = << Head(data) >> \o @]

SetKernel(k) ==
    /\ kfd' = k.kfd
    /\ strong' = k.strong

(***************************************************************************)
(* The run() thread: initial scan                                          *)
(***************************************************************************)
envVars == << sysfs, evFile, inputGroup, envChanges, events >>
kernelVars == << kfd, strong >>
pollerVars == << ppc, remote_controls, pollfds, to_cw >>

\* The sysfs node of lirc_path goes away between the glob and read_link
\* (the receiver is unplugged while RemoteControl::new runs).
Vanish(vanished, lirc_path) ==
    IF vanished
    THEN /\ envChanges < MaxEnvChanges
         /\ sysfs' = {e \in sysfs : e[2] # lirc_path}
         /\ envChanges' = envChanges + 1
    ELSE UNCHANGED << sysfs, envChanges >>

\* add_already_installed_remotes: the glob, the early return, the lock.
ScanBegin ==
    /\ wpc = "init"
    /\ IF scanRest = << >>
       THEN wpc' = "spawn" /\ lock' = lock
       ELSE wpc' = "scan" /\ lock' = "watcher"
    /\ UNCHANGED << REMOTES, poisoned, wnew, scanRest, pollerVars,
                    envVars, kernelVars >>
    /\ UNCHANGED guiVars

\* One element of the lazy filter/map/for_each chain, up to the wait inside
\* RemoteControl::new; at the end of the list the lock is released.
ScanNext(vanished) ==
    /\ wpc = "scan"
    /\ IF scanRest = << >>
       THEN /\ wpc' = "spawn"
            /\ lock' = "none"
            /\ ~vanished
            /\ UNCHANGED << poisoned, wnew, scanRest, sysfs, envChanges >>
       ELSE LET lirc_path == Head(scanRest)
                r == RemoteControlNewStart(lirc_path, vanished)
            IN  /\ vanished => r.why = "link"
                /\ Vanish(vanished, lirc_path)
                /\ IF ~get_sys_path_from_lirc_path(lirc_path).ok \/ r.kind = "err"
                   THEN /\ wpc' = "scan"
                        /\ scanRest' = Tail(scanRest)
                        /\ UNCHANGED << lock, poisoned, wnew >>
                   ELSE IF r.kind = "panic"
                   THEN /\ wpc' = "panicked"
                        /\ lock' = "none"
                        /\ poisoned' = TRUE
                        /\ UNCHANGED << wnew, scanRest >>
                   ELSE /\ wpc' = "scan_wait"
                        /\ wnew' = r.rc
                        /\ UNCHANGED << lock, poisoned, scanRest >>
    /\ UNCHANGED << REMOTES, pollerVars, evFile, inputGroup, events, kernelVars >>
    /\ UNCHANGED guiVars

\* The rest of RemoteControl::new for the current element, and the push.
ScanWait ==
    /\ wpc = "scan_wait"
    /\ PathExists(wnew.device_event_path)
    /\ LET r == RemoteControlNewFinish(Kernel, wnew)
       IN  IF r.ok
           THEN LET p == PushNew(r.k, REMOTES, r.rc)
                IN  REMOTES' = p.data /\ SetKernel(p.k)
           ELSE REMOTES' = REMOTES /\ SetKernel(r.k)
    /\ wpc' = "scan"
    /\ scanRest' = Tail(scanRest)
    /\ wnew' = NoRemote
    /\ UNCHANGED << lock, poisoned, pollerVars, envVars >>
    /\ UNCHANGED guiVars

\* run(): thread::spawn of the listener, then the watch on /dev.
Spawn ==
    /\ wpc = "spawn"
    /\ wpc' = "recv"
    /\ ppc' = "lock"
    /\ UNCHANGED << REMOTES, lock, poisoned, wnew, scanRest,
                    remote_controls, pollfds, to_cw, envVars, kernelVars >>
    /\ UNCHANGED guiVars

(***************************************************************************)
(* The run() thread: hotplug watcher                                       *)
(***************************************************************************)
Ops == {"CREATE", "REMOVE", "WRITE", "BROKEN"}

\* file_name().starts_with("lirc")
StartsWithLirc(name) == name \in LircNames

\* remove_disappeared_remote_control, under the lock.
RemoveResult(k, data, lirc_path) ==
    LET r == Retain(data, lirc_path)
    IN  [data |-> r.kept, k |-> DropVec(k, r.removed)]

\* The match on the event with every operation but CREATE taken for a
\* REMOVE.
RecvAnyOp(op, name) ==
    /\ wpc = "recv"
    /\ IF op = "CREATE" /\ StartsWithLirc(name)
       THEN /\ IF get_sys_path_from_lirc_path(name).ok
               THEN wpc' = "add_lock" /\ wnew' = [NoRemote EXCEPT !.lirc_path = name]
               ELSE UNCHANGED << wpc, wnew >>
            /\ UNCHANGED << REMOTES, kernelVars >>
       ELSE IF op # "CREATE" /\ StartsWithLirc(name)
       THEN /\ lock = "none"
            /\ IF poisoned
               THEN /\ wpc' = "panicked"
                    /\ UNCHANGED << REMOTES, kernelVars >>
               ELSE LET r == RemoveResult(Kernel, REMOTES, name)
                    IN  /\ REMOTES' = r.data
                        /\ SetKernel(r.k)
                        /\ wpc' = wpc
            /\ wnew' = wnew
       ELSE UNCHANGED << wpc, wnew, REMOTES, kernelVars >>
    /\ UNCHANGED << lock, poisoned, scanRest, pollerVars, envVars >>
    /\ UNCHANGED guiVars

\* One receive_end.recv() and the match on the event.  A CREATE for a lirc
\* file enters add_appeared_remote_control, whose first line resolves the
\* sysfs path before the lock is asked for.  A REMOVE for a lirc file is
\* remove_disappeared_remote_control.  Every other event is dropped.
Recv(op, name) ==
    /\ wpc = "recv"
    /\ IF op = "CREATE" /\ StartsWithLirc(name)
       THEN /\ IF get_sys_path_from_lirc_path(name).ok
               THEN wpc' = "add_lock" /\ wnew' = [NoRemote EXCEPT !.lirc_path = name]
               ELSE UNCHANGED << wpc, wnew >>
            /\ UNCHANGED << REMOTES, kernelVars >>
       ELSE IF op = "REMOVE" /\ StartsWithLirc(name)
       THEN /\ lock = "none"
            /\ IF poisoned
               THEN /\ wpc' = "panicked"
                    /\ UNCHANGED << REMOTES, kernelVars >>
               ELSE LET r == RemoveResult(Kernel, REMOTES, name)
                    IN  /\ REMOTES' = r.data
                        /\ SetKernel(r.k)
                        /\ wpc' = wpc
            /\ wnew' = wnew
       ELSE UNCHANGED << wpc, wnew, REMOTES, kernelVars >>
    /\ UNCHANGED << lock, poisoned, scanRest, pollerVars, envVars >>
    /\ UNCHANGED guiVars

\* add_appeared_remote_control: REMOTES.lock() and RemoteControl::new up to
\* the wait for the event file.
AddLock(vanished) ==
    /\ wpc = "add_lock"
    /\ lock = "none"
    /\ IF poisoned
       THEN /\ wpc' = "panicked"
            /\ ~vanished
            /\ UNCHANGED << lock, poisoned, wnew, sysfs, envChanges >>
       ELSE LET r == RemoteControlNewStart(wnew.lirc_path, vanished)
            IN  /\ vanished => r.why = "link"
                /\ Vanish(vanished, wnew.lirc_path)
                /\ IF r.kind = "err"
                   THEN /\ wpc' = "recv"
                        /\ wnew' = NoRemote
                        /\ UNCHANGED << lock, poisoned >>
                   ELSE IF r.kind = "panic"
                   THEN /\ wpc' = "panicked"
                        /\ poisoned' = TRUE
                        /\ wnew' = NoRemote
                        /\ UNCHANGED << lock >>
                   ELSE /\ wpc' = "add_wait"
                        /\ lock' = "watcher"
                        /\ wnew' = r.rc
                        /\ UNCHANGED poisoned
    /\ UNCHANGED << REMOTES, scanRest, pollerVars, evFile, inputGroup, events,
                    kernelVars >>
    /\ UNCHANGED guiVars

\* The rest of RemoteControl::new, the push on success, the release of the
\* lock at the end of the match.
AddWait ==
    /\ wpc = "add_wait"
    /\ PathExists(wnew.device_event_path)
    /\ LET r == RemoteControlNewFinish(Kernel, wnew)
       IN  IF r.ok
           THEN LET p == PushNew(r.k, REMOTES, r.rc)
                IN  REMOTES' = p.data /\ SetKernel(p.k)
           ELSE REMOTES' = REMOTES /\ SetKernel(r.k)
    /\ wpc' = "recv"
    /\ lock' = "none"
    /\ wnew' = NoRemote
    /\ UNCHANGED << poisoned, scanRest, pollerVars, envVars >>
    /\ UNCHANGED guiVars

(***************************************************************************)
(* The rc_event_listener() thread                                          *)
(***************************************************************************)

\* read(fd, buffer, item_size * 64): the byte count returned, the records
\* written to the buffer and the records left in the kernel's queue; -1 on
\* a device that is gone.  part is the number of bytes of an incomplete
\* record that the read returns behind the whole records.
ReadResult(k, fd) ==
    LET q == k.kfd[fd].q
        n == IF Len(q) < ReadMax THEN Len(q) ELSE ReadMax
    IN  IF k.kfd[fd].hup
        THEN [rc |-> -1, buffer |-> << >>, k |-> k]
        ELSE [rc |-> ItemSize * n + k.kfd[fd].part, buffer |-> SubSeq(q, 1, n),
              k |-> [k EXCEPT !.kfd[fd].q = SubSeq(q, n + 1, Len(q)),
                              !.kfd[fd].part = 0]]

\* "as u32": a u32 is kept as its two 16-bit halves.  item.code is a u16
\* and is zero-extended, item.value is an i32 and is reinterpreted.
U16AsU32(c) == [hi |-> 0, lo |-> c % U16]
I32AsU32(v) == [hi |-> (v \div U16) % U16, lo |-> v % U16]

\* The for loop run from the last record of the buffer to the first.
ForwardFromBackwards(remote_control, buffer, event_count, i, chan) ==
    LET keys == SelectSeq(SubSeq(buffer, i, event_count),
                          LAMBDA item : item.type_ = EV_KEY)
        n == Len(keys)
    IN  IF keys = << >> THEN [chan |-> chan, panic |-> FALSE]
        ELSE IF remote_control.frontend_ids = << >>
        THEN [chan |-> chan, panic |-> TRUE]
        ELSE [chan |-> chan \o
                  [j \in 1..n |->
                      [tk |-> [frontend_id |-> remote_control.frontend_ids[1],
                               keystroke |-> U16AsU32(keys[n + 1 - j].code),
                               value |-> I32AsU32(keys[n + 1 - j].value)]]],
              panic |-> FALSE]

\* The for loop of process_events_for_device over the records i to
\* event_count of the buffer: the channel after the sends, and whether
\* indexing frontend_ids[0] panicked.  The records that are sent are the
\* EV_KEY records, in the order of the buffer; the first of them panics
\* when frontend_ids is empty.
ForwardFrom(remote_control, buffer, event_count, i, chan) ==
    LET keys == SelectSeq(SubSeq(buffer, i, event_count),
                          LAMBDA item : item.type_ = EV_KEY)
    IN  IF keys = << >> THEN [chan |-> chan, panic |-> FALSE]
        ELSE IF remote_control.frontend_ids = << >>
        THEN [chan |-> chan, panic |-> TRUE]
        ELSE [chan |-> chan \o
                  [j \in 1..Len(keys) |->
                      [tk |-> [frontend_id |-> remote_control.frontend_ids[1],
                               keystroke |-> U16AsU32(keys[j].code),
                               value |-> I32AsU32(keys[j].value)]]],
              panic |-> FALSE]

\* process_events_for_device with a negative byte count taken as fatal.
process_events_read_asserted(k, remote_control, chan) ==
    LET r == ReadResult(k, remote_control.device_file)
    IN  IF r.rc > 0
        THEN LET event_count == r.rc \div ItemSize
             IN  IF ItemSize * event_count # r.rc
                 THEN [k |-> r.k, chan |-> chan, panic |-> TRUE]
                 ELSE LET f == ForwardFrom(remote_control, r.buffer,
                                           event_count, 1, chan)
                      IN  [k |-> r.k, chan |-> f.chan, panic |-> f.panic]
        ELSE [k |-> r.k, chan |-> chan, panic |-> r.rc < 0]

\* process_events_for_device without the assert_eq! on the byte count.
process_events_unchecked(k, remote_control, chan) ==
    LET r == ReadResult(k, remote_control.device_file)
    IN  IF r.rc > 0
        THEN LET f == ForwardFrom(remote_control, r.buffer,
                                  r.rc \div ItemSize, 1, chan)
             IN  [k |-> r.k, chan |-> f.chan, panic |-> f.panic]
        ELSE [k |-> r.k, chan |-> chan, panic |-> FALSE]

\* process_events_for_device: the read, the test rc > 0, the assert_eq! on
\* the byte count, the loop.
process_events_for_device(k, remote_control, chan) ==
    LET r == ReadResult(k, remote_control.device_file)
    IN  IF r.rc > 0
        THEN LET event_count == r.rc \div ItemSize
             IN  IF ItemSize * event_count # r.rc
                 THEN [k |-> r.k, chan |-> chan, panic |-> TRUE]
                 ELSE LET f == ForwardFrom(remote_control, r.buffer,
                                           event_count, 1, chan)
                      IN  [k |-> r.k, chan |-> f.chan, panic |-> f.panic]
        ELSE [k |-> r.k, chan |-> chan, panic |-> FALSE]

\* REMOTES.lock()
PollerLock ==
    /\ ppc = "lock"
    /\ lock = "none"
    /\ lock' = "poller"
    /\ ppc' = "clone"
    /\ UNCHANGED << REMOTES, poisoned, wpc, wnew, scanRest,
                    remote_controls, pollfds, to_cw, envVars, kernelVars >>
    /\ UNCHANGED guiVars

\* The snapshot: a clone of every Arc, or the empty Vec when the mutex is
\* poisoned.
Snapshot(data) == IF poisoned THEN << >> ELSE data

\* The wait-set built from the snapshot.
BuildPollfds(rcs) ==
    [i \in 1..Len(rcs) |-> [fd |-> rcs[i].device_file, revents |-> 0]]

\* The snapshot statement with the guard kept alive past its end.
AfterSnapshotKept == "poller"

\* The holder of the mutex after the statement that takes the snapshot.
AfterSnapshot == "none"

\* The statement that takes the snapshot (its end releases the lock), the
\* construction of pollfds, and the test for the empty wait-set.
PollerSnapshot ==
    /\ ppc = "clone"
    /\ LET rcs == Snapshot(REMOTES)
       IN  /\ remote_controls' = rcs
           /\ pollfds' = BuildPollfds(rcs)
           /\ SetKernel(CloneVec(Kernel, rcs))
           /\ ppc' = IF Len(rcs) > 0 THEN "poll" ELSE "lock"
    /\ lock' = AfterSnapshot
    /\ UNCHANGED << REMOTES, poisoned, wpc, wnew, scanRest, to_cw, envVars >>
    /\ UNCHANGED guiVars

\* What poll reports for a descriptor asked for POLLIN: POLLIN when records
\* are buffered, POLLERR | POLLHUP when the device is gone.
Revents(k, fd) ==
    IF k.kfd[fd].hup THEN 24
    ELSE IF k.kfd[fd].q # << >> \/ k.kfd[fd].part > 0 THEN 1 ELSE 0

\* The for loop over pollfds from index i on.
RECURSIVE ProcessFrom(_, _, _, _, _)
ProcessFrom(k, rcs, fds, i, chan) ==
    IF i > Len(fds) THEN [k |-> k, chan |-> chan, panic |-> FALSE]
    ELSE IF fds[i].revents # 0
    THEN LET r == process_events_for_device(k, rcs[i], chan)
         IN  IF r.panic THEN r ELSE ProcessFrom(r.k, rcs, fds, i + 1, r.chan)
    ELSE ProcessFrom(k, rcs, fds, i + 1, chan)

\* libc::poll with no timeout returns when a descriptor is ready; then the
\* for loop over pollfds runs, and the loop body ends, which drops
\* remote_controls and pollfds.  A panic unwinds the thread, which drops
\* them as well.
PollerWake ==
    /\ ppc = "poll"
    /\ \E i \in 1..Len(pollfds) : Revents(Kernel, pollfds[i].fd) # 0
    /\ LET ready == [i \in 1..Len(pollfds) |->
                        [pollfds[i] EXCEPT !.revents = Revents(Kernel, pollfds[i].fd)]]
           r == ProcessFrom(Kernel, remote_controls, ready, 1, to_cw)
       IN  /\ to_cw' = r.chan
           /\ SetKernel(DropVec(r.k, remote_controls))
           /\ ppc' = IF r.panic THEN "panicked" ELSE "lock"
    /\ remote_controls' = << >>
    /\ pollfds' = << >>
    /\ UNCHANGED << REMOTES, lock, poisoned, wpc, wnew, scanRest, envVars >>
    /\ UNCHANGED guiVars

(***************************************************************************)
(* The environment                                                         *)
(***************************************************************************)
Records ==
    { [type_ |-> EV_KEY, code |-> 28, value |-> 1],
      [type_ |-> EV_KEY, code |-> 103, value |-> 0],
      [type_ |-> 0, code |-> 0, value |-> 0] }

\* The states of /sys/class/rc: a lirc name belongs to one receiver and a
\* receiver has one lirc device.
SysPairs ==
    { << "rc0", "lirc0" >>, << "rc1", "lirc0" >>, << "rc1", "lirc1" >>,
      << "rc2", "lirc1" >> }

SysStates ==
    { S \in SUBSET SysPairs :
        \A e \in S, f \in S : e # f => e[1] # f[1] /\ e[2] # f[2] }

ExtensionsOf(d) == IF d = DevA THEN Extensions ELSE {"-event"}

\* udev registers or unregisters receivers.
EnvSysfs(S) ==
    /\ envChanges < MaxEnvChanges
    /\ S \in SysStates
    /\ S # sysfs
    /\ sysfs' = S
    /\ envChanges' = envChanges + 1
    /\ UNCHANGED << progVars, evFile, inputGroup, events, kernelVars >>
    /\ UNCHANGED guiVars

\* The input device of a receiver appears under /dev/input/by-path.
EnvPlug(d, ext) ==
    /\ envChanges < MaxEnvChanges
    /\ ext \in ExtensionsOf(d)
    /\ evFile[d] = ""
    /\ evFile' = [evFile EXCEPT ![d] = ext]
    /\ envChanges' = envChanges + 1
    /\ UNCHANGED << progVars, sysfs, inputGroup, events, kernelVars >>
    /\ UNCHANGED guiVars

\* The input device goes away: descriptors open on it are hung up, and a
\* device that appears under the same name later is a new one.
Unplugged(k, d) ==
    [k EXCEPT !.kfd = [fd \in Fds |->
                          IF k.kfd[fd].open /\ k.kfd[fd].dev = d
                          THEN [k.kfd[fd] EXCEPT !.hup = TRUE, !.q = << >>, !.part = 0]
                          ELSE k.kfd[fd]]]

EnvUnplug(d) ==
    /\ envChanges < MaxEnvChanges
    /\ evFile[d] # ""
    /\ evFile' = [evFile EXCEPT ![d] = ""]
    /\ SetKernel(Unplugged(Kernel, d))
    /\ envChanges' = envChanges + 1
    /\ UNCHANGED << progVars, sysfs, inputGroup, events >>
    /\ UNCHANGED guiVars

\* The device is unplugged and plugged in again.
EnvReplug(d) ==
    /\ envChanges < MaxEnvChanges
    /\ evFile[d] # ""
    /\ SetKernel(Unplugged(Kernel, d))
    /\ envChanges' = envChanges + 1
    /\ UNCHANGED << progVars, sysfs, evFile, inputGroup, events >>
    /\ UNCHANGED guiVars

\* The kernel queues a record for the descriptor that holds the grab.
EnvEvent(d, rec) ==
    /\ events < MaxEvents
    /\ \E fd \in GrabHolders(Kernel, d) :
           kfd' = [kfd EXCEPT ![fd].q = Append(@, rec)]
    /\ events' = events + 1
    /\ UNCHANGED << progVars, sysfs, evFile, inputGroup, envChanges, strong >>
    /\ UNCHANGED guiVars

\* A read of the descriptor that holds the grab will return, behind the
\* whole records, the first 8 bytes of another one.
EnvPartial(d) ==
    /\ events < MaxEvents
    /\ \E fd \in GrabHolders(Kernel, d) :
           /\ kfd[fd].part = 0
           /\ kfd' = [kfd EXCEPT ![fd].part = 8]
    /\ events' = events + 1
    /\ UNCHANGED << progVars, sysfs, evFile, inputGroup, envChanges, strong >>
    /\ UNCHANGED guiVars

\* A key is held down and released: the kernel queues one record more than
\* one read takes, the repeats and the release.
EnvBurst(d) ==
    /\ events < MaxEvents
    /\ \E fd \in GrabHolders(Kernel, d) :
           kfd' = [kfd EXCEPT ![fd].q =
                      @ \o [i \in 1..(ReadMax + 1) |->
                               [type_ |-> EV_KEY, code |-> 28,
                                value |-> IF i <= ReadMax THEN 2 ELSE 0]]]
    /\ events' = events + 1
    /\ UNCHANGED << progVars, sysfs, evFile, inputGroup, envChanges, strong >>
    /\ UNCHANGED guiVars

(***************************************************************************)
(* The control window (src/src/control_window.rs) and its buttons          *)
(* (src/src/control_window_button.rs), which live in the GTK thread.  A    *)
(* widget is known by a number; a gtk::Box is the sequence of its          *)
(* children; a combo box is the index of its active row, -1 for none.      *)
(***************************************************************************)
MaxButtons == 2     \* widgets the frontends box may hold

Widgets == 1..MaxButtons

\* The frontends that FrontendAppeared and FrontendDisappeared name.
FrontendIds ==
    { [adapter |-> 0, frontend |-> 0], [adapter |-> 1, frontend |-> 0] }

\* What get_names() returns: None when there is no channels file, or the
\* names of the file, of which the model keeps the number.
GetNames ==
    { [some |-> FALSE, names |-> 0], [some |-> TRUE, names |-> 0],
      [some |-> TRUE, names |-> 2] }

\* The fields of the ControlWindow as ControlWindow::new builds them,
\* before its call of update_channels_store.
NewControlWindow ==
    [main_box |-> << "label" >>,
     frontends_box |-> << >>,
     channel_names_store |-> 0,
     channel_names_loaded |-> FALSE,
     control_window_buttons |-> << >>]

\* gtk_combo_box_set_active on a model of the given number of rows: an
\* index that is not a row of the model leaves no row active.
SetActive(rows, index) == IF index >= 0 /\ index < rows THEN index ELSE -1

\* ControlWindowButton::reset_active_channel
reset_active_channel(cw, button) ==
    [button EXCEPT !.channel_selector = SetActive(cw.channel_names_store, 0)]

\* ControlWindow::update_channels_store
update_channels_store(cw, got) ==
    LET stored == [cw EXCEPT
                      !.channel_names_store = IF got.some THEN got.names ELSE 1,
                      !.channel_names_loaded = got.some]
    IN  [stored EXCEPT !.control_window_buttons =
            [i \in 1..Len(@) |-> reset_active_channel(stored, @[i])]]

\* ControlWindowButton::new: the widget is a new gtk::Box, the toggle
\* button is not active, there is no frontend window.
ControlWindowButtonNew(cw, fei) ==
    LET used == Range(cw.frontends_box) \cup
                {cw.control_window_buttons[i].widget :
                     i \in 1..Len(cw.control_window_buttons)}
    IN  reset_active_channel(cw,
            [frontend_id |-> fei,
             widget |-> Min(Widgets \ used),
             frontend_button |-> FALSE,
             channel_selector |-> -1,
             frontend_window |-> FALSE])

\* add_frontend
add_frontend(cw, fei) ==
    LET shown == IF cw.main_box[1] = "label"
                 THEN [cw EXCEPT !.main_box = << "frontends_box" >>]
                 ELSE cw
        control_window_button == ControlWindowButtonNew(shown, fei)
    IN  [shown EXCEPT
            !.frontends_box = Append(@, control_window_button.widget),
            !.control_window_buttons = Append(@, control_window_button)]

\* gtk::Box::remove of a child.
BoxRemove(box, widget) == SelectSeq(box, LAMBDA w : w # widget)

\* Vec::remove(index), index counted from 0; the index is in range.
VecRemove(v, index) ==
    [i \in 1..(Len(v) - 1) |-> IF i <= index THEN v[i] ELSE v[i + 1]]

\* remove_frontend: the search for the first button of the frontend, with
\* remove_index left at 0 when there is none; Vec::remove, which panics
\* when the index is not below the length; the label put back when the
\* box is empty.
remove_frontend(cw, fei) ==
    LET buttons == cw.control_window_buttons
        found == {i \in 1..Len(buttons) : buttons[i].frontend_id = fei}
        remove_index == IF found = {} THEN 0 ELSE Min(found) - 1
        box == IF found = {} THEN cw.frontends_box
               ELSE BoxRemove(cw.frontends_box, buttons[Min(found)].widget)
    IN  IF remove_index >= Len(buttons)
        THEN [cw |-> [cw EXCEPT !.frontends_box = box], panic |-> TRUE]
        ELSE [cw |-> [cw EXCEPT
                        !.control_window_buttons = VecRemove(buttons, remove_index),
                        !.frontends_box = box,
                        !.main_box = IF box = << >> THEN << "label" >> ELSE @],
              panic |-> FALSE]

\* ControlWindowButton::toggle_button, for the button at index i.
toggle_button(cw, i) ==
    LET b == cw.control_window_buttons[i]
    IN  IF b.frontend_button
        THEN IF cw.channel_names_loaded /\ b.channel_selector >= 0
             THEN [cw |-> [cw EXCEPT !.control_window_buttons[i].frontend_window = TRUE],
                   panic |-> b.frontend_window]
             ELSE [cw |-> cw, panic |-> FALSE]
        ELSE [cw |-> [cw EXCEPT !.control_window_buttons[i].frontend_window = FALSE],
              panic |-> ~b.frontend_window]

\* The end of ControlWindow::new: update_channels_store, then the GTK main
\* loop runs.
ControlWindowNew(got) ==
    /\ gtk_main = "new"
    /\ control_window' = update_channels_store(control_window, got)
    /\ gtk_main' = "running"
    /\ UNCHANGED remoteVars

\* The channels file is written or removed and the store is loaded again.
UpdateChannelsStore(got) ==
    /\ gtk_main = "running"
    /\ control_window' = update_channels_store(control_window, got)
    /\ gtk_main' = gtk_main
    /\ UNCHANGED remoteVars

\* Message::FrontendAppeared { fei }
FrontendAppeared(fei) ==
    /\ gtk_main = "running"
    /\ Len(control_window.frontends_box) < MaxButtons
    /\ control_window' = add_frontend(control_window, fei)
    /\ gtk_main' = gtk_main
    /\ UNCHANGED remoteVars

\* Message::FrontendDisappeared { fei }
FrontendDisappeared(fei) ==
    /\ gtk_main = "running"
    /\ LET r == remove_frontend(control_window, fei)
       IN  /\ control_window' = r.cw
           /\ gtk_main' = IF r.panic THEN "removal index out of bounds" ELSE gtk_main
    /\ UNCHANGED remoteVars

\* The user picks a row of the channel selector of button i; the changed
\* signal runs on_channel_changed, which leaves the index as it is.
ChannelChanged(i, channel_index) ==
    /\ gtk_main = "running"
    /\ i \in 1..Len(control_window.control_window_buttons)
    /\ channel_index \in 0..(control_window.channel_names_store - 1)
    /\ channel_index # control_window.control_window_buttons[i].channel_selector
    /\ control_window' =
          [control_window EXCEPT
              !.control_window_buttons[i].channel_selector = channel_index]
    /\ gtk_main' = gtk_main
    /\ UNCHANGED remoteVars

\* The user clicks the toggle button of button i: its state flips and the
\* toggled signal runs the closure connected in ControlWindowButton::new.
Toggled(i) ==
    /\ gtk_main = "running"
    /\ i \in 1..Len(control_window.control_window_buttons)
    /\ LET flipped == [control_window EXCEPT
                         !.control_window_buttons[i].frontend_button = ~@]
       IN  IF flipped.channel_names_loaded
           THEN LET r == toggle_button(flipped, i)
                IN  /\ control_window' = r.cw
                    /\ gtk_main' = IF r.panic THEN "Inconsistent state of frontend,"
                                   ELSE gtk_main
           ELSE /\ control_window' = flipped
                /\ gtk_main' = gtk_main
    /\ UNCHANGED remoteVars

(***************************************************************************)
(* The specification                                                       *)
(***************************************************************************)
\* The states of the machine at the start of the program that the model
\* starts from: the glob of /dev/lirc* (in the order glob yields, sorted),
\* the receivers registered in sysfs, and the input devices present.
InitialLircDevices == { << >>, << "lirc0", "lirc1" >> }

InitialSysStates ==
    { { << "rc0", "lirc0" >>, << "rc1", "lirc1" >> },
      { << "rc1", "lirc1" >> },
      { << "rc0", "lirc0" >>, << "rc2", "lirc1" >> },
      { << "rc2", "lirc0" >>, << "rc1", "lirc1" >> } }

InitialEvFiles ==
    { [d \in Devices |-> IF d = DevA THEN x ELSE "-event"] :
          x \in {"", "-event", "-event-ir"} }

Init ==
    /\ REMOTES = << >>
    /\ lock = "none"
    /\ poisoned = FALSE
    /\ wpc = "init"
    /\ wnew = NoRemote
    /\ scanRest \in InitialLircDevices
    /\ ppc = "idle"
    /\ remote_controls = << >>
    /\ pollfds = << >>
    /\ to_cw = << >>
    /\ sysfs \in InitialSysStates
    /\ evFile \in InitialEvFiles
    /\ inputGroup \in BOOLEAN
    /\ kfd = [fd \in Fds |-> Closed]
    /\ strong = [fd \in Fds |-> 0]
    /\ envChanges = 0
    /\ events = 0
    /\ control_window = NewControlWindow
    /\ gtk_main = "new"

\* The steps of the program's two threads.
Program ==
    \/ ScanBegin
    \/ \E vanished \in BOOLEAN : ScanNext(vanished)
    \/ ScanWait
    \/ Spawn
    \/ \E op \in Ops, name \in LircNames \cup OtherNames : Recv(op, name)
    \/ \E vanished \in BOOLEAN : AddLock(vanished)
    \/ AddWait
    \/ PollerLock
    \/ PollerSnapshot
    \/ PollerWake

\* Devices come and go.
Hotplug ==
    \/ \E S \in SysStates : EnvSysfs(S)
    \/ \E d \in Devices, ext \in Extensions : EnvPlug(d, ext)
    \/ \E d \in Devices : EnvUnplug(d)
    \/ \E d \in Devices : EnvReplug(d)

\* Keys are pressed.
Keys == \E d \in Devices, rec \in Records : EnvEvent(d, rec)

\* Reads that return an incomplete record.
Partial == \E d \in Devices : EnvPartial(d)

\* Devices go away.
Unplugs == \E d \in Devices : EnvUnplug(d)

\* Queues longer than one read.
Bursts == \E d \in Devices : EnvBurst(d)

Next == Program \/ Hotplug \/ Keys

Spec == Init /\ [][Next]_vars

\* The program while devices come and go and no key is pressed.
SpecHotplug == Init /\ [][Program \/ Hotplug]_vars

\* The program while keys are pressed and the set of devices stays as it
\* was when the program started.
SpecKeys == Init /\ [][Program \/ Keys]_vars

\* The program while keys are pressed and a read may return an incomplete
\* record.
SpecPartial == Init /\ [][Program \/ Keys \/ Partial]_vars

\* The program while keys are pressed and devices go away.
SpecHangup == Init /\ [][Program \/ Keys \/ Unplugs]_vars

\* The program while keys are held down.
SpecBursts == Init /\ [][Program \/ Bursts]_vars

\* The GTK thread: the messages of the frontend manager and the user.
ControlWindowEvents ==
    \/ \E got \in GetNames : ControlWindowNew(got)
    \/ \E got \in GetNames : UpdateChannelsStore(got)
    \/ \E fei \in FrontendIds : FrontendAppeared(fei)
    \/ \E fei \in FrontendIds : FrontendDisappeared(fei)
    \/ \E i \in Widgets, channel_index \in 0..1 : ChannelChanged(i, channel_index)
    \/ \E i \in Widgets : Toggled(i)

\* The control window on its own: no remote control is present.
InitControlWindow ==
    /\ REMOTES = << >>
    /\ lock = "none"
    /\ poisoned = FALSE
    /\ wpc = "init"
    /\ wnew = NoRemote
    /\ scanRest = << >>
    /\ ppc = "idle"
    /\ remote_controls = << >>
    /\ pollfds = << >>
    /\ to_cw = << >>
    /\ sysfs = {}
    /\ evFile = [d \in Devices |-> ""]
    /\ inputGroup = TRUE
    /\ kfd = [fd \in Fds |-> Closed]
    /\ strong = [fd \in Fds |-> 0]
    /\ envChanges = 0
    /\ events = 0
    /\ control_window = NewControlWindow
    /\ gtk_main = "new"

SpecControlWindow == InitControlWindow /\ [][ControlWindowEvents]_vars

(***************************************************************************)
(* The functions of the path resolver, called on their own as the unit     *)
(* tests call them: the file system is any state of /sys/class/rc and of   *)
(* /dev/input/by-path, the result of the call is left in wnew and wpc      *)
(* tells how the call ended.                                               *)
(***************************************************************************)
InitPaths ==
    /\ REMOTES = << >>
    /\ lock = "none"
    /\ poisoned = FALSE
    /\ wpc = "call"
    /\ wnew = NoRemote
    /\ scanRest = << >>
    /\ ppc = "idle"
    /\ remote_controls = << >>
    /\ pollfds = << >>
    /\ to_cw = << >>
    /\ sysfs \in SUBSET SysPairs
    /\ evFile \in [Devices -> {""} \cup Extensions]
    /\ inputGroup = TRUE
    /\ kfd = [fd \in Fds |-> Closed]
    /\ strong = [fd \in Fds |-> 0]
    /\ envChanges = 0
    /\ events = 0
    /\ control_window = NewControlWindow
    /\ gtk_main = "new"

\* get_sys_path_from_lirc_path(lirc_path), as in test sys_path_from_lirc_path.
CallGetSysPath(lirc_path) ==
    /\ wpc = "call"
    /\ LET r == get_sys_path_from_lirc_path(lirc_path)
       IN  /\ wpc' = IF r.ok THEN "sys_ok" ELSE "sys_err"
           /\ wnew' = [NoRemote EXCEPT !.lirc_path = lirc_path,
                                       !.sys_rc_path = r.path]
    /\ UNCHANGED << REMOTES, lock, poisoned, scanRest, pollerVars, envVars,
                    kernelVars >>
    /\ UNCHANGED guiVars

\* Link targets of receivers: those of LinkTarget, the target of test
\* rc0_on_anglides_debian_linux (a tuner behind USB hubs), the target of an
\* infra-red receiver on a PCI card and the target of a GPIO receiver.
SysLinkTargets ==
    {LinkTarget(rc) : rc \in RcNodes} \cup
    { << <<"..">>, <<"..">>, <<"devices">>, <<"pci0000:00">>, <<"0000:00:1d.7">>,
         <<"usb4">>, <<"4", "5">>, <<"4", "5.2">>, <<"4", "5.2.4">>,
         <<"4", "5.2.4.1">>, <<"4", "5.2.4.1.1">>, <<"4", "5.2.4.1.1:1.0">>,
         <<"rc">>, <<"rc0">> >>,
      << <<"..">>, <<"..">>, <<"devices">>, <<"pci0000:00">>, <<"0000:00:1c.0">>,
         <<"0000:02:00.0">>, <<"rc">>, <<"rc0">> >>,
      << <<"..">>, <<"..">>, <<"devices">>, <<"platform">>,
         <<"gpio", "ir", "receiver">>, <<"rc">>, <<"rc0">> >> }

\* create_event_path_from_sys_path(path), as in the tests rc0_on_... and
\* rc1_on_...
CallCreateEventPath(path) ==
    /\ wpc = "call"
    /\ LET r == create_event_path_from_sys_path(path)
       IN  /\ wpc' = IF r.panic THEN "panicked" ELSE "event_path"
           /\ wnew' = [NoRemote EXCEPT !.device_event_path = r.path]
    /\ UNCHANGED << REMOTES, lock, poisoned, scanRest, pollerVars, envVars,
                    kernelVars >>
    /\ UNCHANGED guiVars

\* File names of dvb directories with the numbers they carry: those of
\* the unit tests, and names with more than one digit.
DvbFiles ==
    { [name |-> DvbFileName(<< "0" >>, << "0" >>), adapter |-> 0, frontend |-> 0],
      [name |-> DvbFileName(<< "1" >>, << "0" >>), adapter |-> 1, frontend |-> 0],
      [name |-> DvbFileName(<< "1", "2" >>, << "3" >>), adapter |-> 12, frontend |-> 3],
      [name |-> DvbFileName(<< "2", "5", "5" >>, << "1", "0" >>),
       adapter |-> 255, frontend |-> 10] }

\* The path lists handed to extract_frontend_from_paths.
DvbPathLists ==
    { << >> } \cup { << f >> : f \in DvbFiles }
              \cup { << f, g >> : f \in DvbFiles, g \in DvbFiles }

\* extract_frontend_from_paths(paths), as in the tests
\* extract_frontend_from_..._vector.
CallExtractFrontend(paths) ==
    /\ wpc = "call"
    /\ LET r == extract_frontend_from_paths(paths)
       IN  /\ wpc' = IF r.panic THEN "panicked" ELSE "frontends"
           /\ wnew' = [NoRemote EXCEPT !.frontend_ids = r.rv]
    /\ UNCHANGED << REMOTES, lock, poisoned, scanRest, pollerVars, envVars,
                    kernelVars >>
    /\ UNCHANGED guiVars

PathCalls ==
    \/ \E lirc_path \in LircNames : CallGetSysPath(lirc_path)
    \/ \E path \in SysLinkTargets : CallCreateEventPath(path)
    \/ \E files \in DvbPathLists :
           CallExtractFrontend([i \in 1..Len(files) |-> files[i].name])

SpecPaths == InitPaths /\ [][PathCalls]_vars

(***************************************************************************)
(* Properties                                                              *)
(***************************************************************************)
\* The handles that exist: those of the registry and those of the poller's
\* snapshot.
Live == Range(REMOTES) \cup Range(remote_controls)

\* C1: the registry holds at most one handle for each lirc path.
C1_OneHandlePerLircPath ==
    \A i, j \in DOMAIN REMOTES :
        REMOTES[i].lirc_path = REMOTES[j].lirc_path => i = j

\* The key-event records of a buffer, in order.
KeyRecords(q) == SelectSeq(q, LAMBDA r : r.type_ = EV_KEY)

\* The pairs << handle, record >> for the key-event records that the
\* readable devices of a snapshot hold, in the order of the snapshot.
RECURSIVE ReadableKeys(_)
ReadableKeys(rcs) ==
    IF rcs = << >> THEN << >>
    ELSE LET h == Head(rcs)
             q == IF kfd[h.device_file].hup THEN << >>
                  ELSE KeyRecords(kfd[h.device_file].q)
         IN  [i \in 1..Len(q) |-> << h, q[i] >>] \o ReadableKeys(Tail(rcs))

\* C2: when the poller wakes, every key-event record held by a readable
\* device of the snapshot is sent exactly once, with its code, its value and
\* the first frontend id of its device, and nothing else is sent.
C2_KeysForwardedOnce ==
    [][ (ppc = "poll" /\ ppc' # "poll") =>
          LET keys == ReadableKeys(remote_controls)
              n == Len(to_cw)
          IN  /\ Len(to_cw') = n + Len(keys)
              /\ SubSeq(to_cw', 1, n) = to_cw
              /\ \A i \in 1..Len(keys) :
                    /\ keys[i][1].frontend_ids # << >>
                    /\ to_cw'[n + i].tk.frontend_id = Head(keys[i][1].frontend_ids)
                    /\ to_cw'[n + i].tk.keystroke = [hi |-> 0, lo |-> keys[i][2].code]
                    /\ to_cw'[n + i].tk.value = [hi |-> 0, lo |-> keys[i][2].value]
      ]_vars

\* C3: the poller holds the mutex only while it takes the snapshot, never
\* while it is blocked in poll (from where it goes on to read).
C3_PollerWaitsWithoutLock ==
    /\ ppc = "poll" => lock # "poller"
    /\ lock = "poller" => ppc = "clone"

\* The poller is blocked in poll on a device while the watcher holds the
\* mutex.
C3_Witness ==
    /\ ppc = "poll"
    /\ Len(pollfds) > 0
    /\ lock = "watcher"

\* C4: no thread holds the mutex while it waits for an event file that is
\* not there.
C4_NoLockWhileWaitingForFile ==
    ~ (/\ ppc # "idle"
       /\ lock = "watcher"
       /\ wpc = "add_wait"
       /\ ~PathExists(wnew.device_event_path))

\* C5: when remove returns, the files of the handles it removed are closed.
C5_RemoveClosesFile ==
    [][ \A name \in LircNames :
          Recv("REMOVE", name) =>
              \A i \in DOMAIN REMOTES :
                  REMOTES[i].lirc_path = name =>
                      ~kfd'[REMOTES[i].device_file].open
      ]_vars

\* C6: every handle that exists has its file open on its event device and
\* holds the grab of it, and no device is grabbed through two descriptors.
C6_HandlesHoldGrab ==
    /\ \A h \in Live :
          /\ kfd[h.device_file].open
          /\ kfd[h.device_file].dev = DevOf(h.device_event_path)
          /\ kfd[h.device_file].grabbed
    /\ \A g, h \in Live : g # h => g.device_file # h.device_file
    /\ \A d \in Devices : Cardinality(GrabHolders(Kernel, d)) <= 1

\* A handle that left the registry and lives on in the snapshot, grabbed.
C6_Witness ==
    \E h \in Range(remote_controls) :
        /\ h \notin Range(REMOTES)
        /\ kfd[h.device_file].grabbed
        /\ ~kfd[h.device_file].hup

\* No handle that exists has its file on the device now present as d.
NoLiveHandleOn(d) ==
    \A h \in Live :
        DevOf(h.device_event_path) = d => kfd[h.device_file].hup

\* C7: when every handle constructed on a device has been destroyed, a
\* construction that finds the event file and can open it succeeds in
\* grabbing the device.
C7_RegrabAfterDestroy ==
    [][ (/\ wpc \in {"add_wait", "scan_wait"}
         /\ wpc' # wpc
         /\ inputGroup
         /\ FreeFds(Kernel) # {}
         /\ NoLiveHandleOn(DevOf(wnew.device_event_path))) =>
            /\ Len(REMOTES') = Len(REMOTES) + 1
            /\ REMOTES'[Len(REMOTES')].device_event_path = wnew.device_event_path
            /\ kfd'[REMOTES'[Len(REMOTES')].device_file].grabbed
      ]_vars

\* With the file system as it was at the start, the handle with descriptor
\* 2 was constructed while descriptor 1 was open on the other device; the
\* handle of descriptor 1 was then destroyed, and the handle that has
\* descriptor 1 now was constructed on that device again.
C7_Witness ==
    /\ envChanges = 0
    /\ Len(REMOTES) = 2
    /\ REMOTES[1].device_file = 2
    /\ REMOTES[2].device_file = 1
    /\ kfd[1].grabbed
    /\ kfd[2].grabbed

\* C8: add_appeared_remote_control appends one handle for the path behind
\* the entries already there when the construction succeeds, and leaves the
\* registry as it was when the resolution of the path, the symlink read, the
\* open or the grab fails; the watcher then receives the next event.
C8_AddAppendsOrLeaves ==
    [][ /\ (wpc = "recv" /\ wpc' = "add_lock") => REMOTES' = REMOTES
        /\ (wpc = "add_lock" /\ wpc' = "recv") => REMOTES' = REMOTES
        /\ (wpc = "add_lock" /\ wpc' = "add_wait") => REMOTES' = REMOTES
        /\ (wpc = "add_wait" /\ wpc' # "add_wait") =>
              /\ wpc' = "recv"
              /\ LET n == Len(REMOTES)
                     d == DevOf(wnew.device_event_path)
                 IN  IF /\ inputGroup
                        /\ FreeFds(Kernel) # {}
                        /\ GrabHolders(Kernel, d) = {}
                     THEN /\ Len(REMOTES') = n + 1
                          /\ SubSeq(REMOTES', 1, n) = REMOTES
                          /\ REMOTES'[n + 1].lirc_path = wnew.lirc_path
                          /\ kfd'[REMOTES'[n + 1].device_file].grabbed
                     ELSE REMOTES' = REMOTES
      ]_vars

\* The initial scan registers lirc0 before lirc1: this order of the
\* registry comes from a hotplug add of lirc0.
C8_Witness ==
    /\ wpc = "recv"
    /\ Len(REMOTES) = 2
    /\ REMOTES[1].lirc_path = "lirc1"
    /\ REMOTES[2].lirc_path = "lirc0"

C10_WaitSetIsRegistry ==
    [][ (ppc = "clone" /\ ppc' # "clone") =>
            pollfds' = [i \in 1..Len(REMOTES) |->
                           [fd |-> REMOTES[i].device_file, revents |-> 0]]
      ]_vars

\* RemoteControl::new would return Ok for the lirc path in this state of the
\* file system, no device being grabbed.
Registrable(lirc_path) ==
    LET sp == get_sys_path_from_lirc_path(lirc_path)
    IN  /\ sp.ok
        /\ LET ev == create_event_path_from_sys_path(LinkTarget(sp.path))
           IN  /\ ~ev.panic
               /\ PathExists(ev.path)
               /\ inputGroup

\* C11: the initial scan visits every globbed lirc device: a device whose
\* construction fails is skipped and the scan goes on, a device whose
\* construction succeeds is appended, and the scan does not stop while a
\* device that could be registered is still to be visited.
C11_ScanVisitsEveryDevice ==
    [][ (wpc \in {"scan", "scan_wait"} /\ (wpc' # wpc \/ scanRest' # scanRest)) =>
          /\ wpc' \notin {"scan", "scan_wait"} =>
                \A i \in 2..Len(scanRest) : ~Registrable(scanRest[i])
          /\ (wpc = "scan" /\ wpc' = "scan") =>
                REMOTES' = REMOTES /\ scanRest' = Tail(scanRest)
          /\ wpc = "scan_wait" =>
                /\ wpc' = "scan"
                /\ scanRest' = Tail(scanRest)
                /\ LET n == Len(REMOTES)
                   IN  IF /\ inputGroup
                          /\ FreeFds(Kernel) # {}
                          /\ GrabHolders(Kernel, DevOf(wnew.device_event_path)) = {}
                       THEN /\ Len(REMOTES') = n + 1
                            /\ SubSeq(REMOTES', 1, n) = REMOTES
                            /\ REMOTES'[n + 1].lirc_path = Head(scanRest)
                       ELSE REMOTES' = REMOTES
      ]_vars

\* C12: the watcher loop changes the registry only through the add that
\* follows a CREATE of a lirc file and through the remove done for a REMOVE
\* of a lirc file; every other notification (another file name, another
\* operation, a broken event) changes nothing and the loop receives the
\* next one.
C12_WatcherFiltersNotifications ==
    [][ /\ \A op \in Ops, name \in LircNames \cup OtherNames :
              Recv(op, name) =>
                  IF op = "CREATE" /\ StartsWithLirc(name)
                  THEN /\ REMOTES' = REMOTES
                       /\ wpc' \in {"recv", "add_lock"}
                       /\ wpc' = "add_lock" => wnew'.lirc_path = name
                  ELSE IF op = "REMOVE" /\ StartsWithLirc(name)
                  THEN /\ wpc' = "recv"
                       /\ REMOTES' = SelectSeq(REMOTES, LAMBDA h : h.lirc_path # name)
                  ELSE UNCHANGED vars
        /\ (wpc \in {"recv", "add_lock", "add_wait"} /\ REMOTES' # REMOTES) =>
              \/ /\ wpc = "add_wait"
                 /\ REMOTES' = Append(REMOTES, REMOTES'[Len(REMOTES')])
                 /\ REMOTES'[Len(REMOTES')].lirc_path = wnew.lirc_path
              \/ \E name \in LircNames : Recv("REMOVE", name)
      ]_vars

\* The watcher waits for the next notification with two handles registered
\* and the poller blocked on them.
C12_Witness ==
    /\ wpc = "recv"
    /\ Len(REMOTES) = 2
    /\ ppc = "poll"
    /\ Len(pollfds) = 2

\* C13: get_sys_path_from_lirc_path is Ok with the rc directory of the
\* only entry /sys/class/rc/rc*/lirc* whose name is that of the lirc path,
\* and an error when no entry or more than one entry has that name.
C13_SysPathOfUniqueMatch ==
    [][ \A lirc_path \in LircNames :
          CallGetSysPath(lirc_path) =>
              LET matches == {rc \in RcNodes : << rc, lirc_path >> \in sysfs}
              IN  IF Cardinality(matches) = 1
                  THEN wpc' = "sys_ok" /\ wnew'.sys_rc_path \in matches
                  ELSE wpc' = "sys_err"
      ]_vars

\* The call failed for a lirc name that two receivers have.
C13_Witness ==
    /\ wpc = "sys_err"
    /\ Cardinality({rc \in RcNodes : << rc, wnew.lirc_path >> \in sysfs}) = 2

\* The pieces of a component joined by "-" again.
RECURSIVE JoinHyphen(_)
JoinHyphen(pieces) ==
    IF Len(pieces) = 1 THEN pieces[1]
    ELSE pieces[1] \o "-" \o JoinHyphen(Tail(pieces))

\* C14: for every link target ../../devices/.../rc/rcN the function
\* returns the path made of the component at index 4, the part of the
\* third-from-last component behind its first hyphen, and "-event-ir" when
\* that file exists, else "-event".
C14_EventPathOfLinkTarget ==
    [][ \A path \in SysLinkTargets :
          CallCreateEventPath(path) =>
              LET n == Len(path)
              IN  /\ wpc' = "event_path"
                  /\ wnew'.device_event_path.pci = path[5]
                  /\ Len(path[n - 2]) >= 2
                  /\ wnew'.device_event_path.bus = JoinHyphen(Tail(path[n - 2]))
                  /\ wnew'.device_event_path.ext =
                        IF PathExists([pci |-> path[5],
                                       bus |-> JoinHyphen(Tail(path[n - 2])),
                                       ext |-> "-event-ir"])
                        THEN "-event-ir" ELSE "-event"
      ]_vars

\* C15: extract_frontend_from_paths returns one FrontendId for each path,
\* in the order of the paths, with the adapter and frontend numbers of the
\* file name dvb<adapter>.frontend<frontend>; the empty list gives the
\* empty sequence.
C15_FrontendsOfPaths ==
    [][ \A files \in DvbPathLists :
          CallExtractFrontend([i \in 1..Len(files) |-> files[i].name]) =>
              /\ wpc' = "frontends"
              /\ Len(wnew'.frontend_ids) = Len(files)
              /\ \A i \in 1..Len(files) :
                    wnew'.frontend_ids[i] =
                        [adapter |-> files[i].adapter, frontend |-> files[i].frontend]
      ]_vars

\* The result of test extract_frontend_from_two_item_vector.
C15_Witness ==
    /\ wpc = "frontends"
    /\ wnew.frontend_ids = << [adapter |-> 0, frontend |-> 0],
                              [adapter |-> 1, frontend |-> 0] >>

\* The handle at index i of the snapshot is read in this cycle: the reads of
\* the handles before it return whole records, and none of them forwards
\* a key for a handle without frontends.
ReadReached(i) ==
    \A j \in 1..(i - 1) :
        LET f == kfd[remote_controls[j].device_file]
        IN  \/ f.hup
            \/ /\ f.part = 0
               /\ KeyRecords(f.q) = << >> \/ remote_controls[j].frontend_ids # << >>

\* C16: when the read of a registered device returns a positive number of
\* bytes that is not a multiple of the record size, the poller stops with
\* a panic, and the sink receives nothing of that read: the messages of the
\* cycle are those of the handles read before it.
C16_PartialReadStopsPoller ==
    [][ \A i \in 1..Len(remote_controls) :
          ( /\ ppc = "poll" /\ ppc' # "poll"
            /\ ~kfd[remote_controls[i].device_file].hup
            /\ kfd[remote_controls[i].device_file].part > 0
            /\ ReadReached(i) ) =>
              /\ ppc' = "panicked"
              /\ Len(to_cw') = Len(to_cw) +
                     Len(ReadableKeys(SubSeq(remote_controls, 1, i - 1)))
              /\ SubSeq(to_cw', 1, Len(to_cw)) = to_cw
      ]_vars

\* The poller has panicked on the only handle there is, one with frontends,
\* after the kernel queued a record and a partial one; nothing was sent.
C16_Witness ==
    /\ ppc = "panicked"
    /\ wpc = "recv"
    /\ sysfs = { << "rc0", "lirc0" >>, << "rc2", "lirc1" >> }
    /\ Len(REMOTES) = 1
    /\ REMOTES[1].frontend_ids # << >>
    /\ kfd[REMOTES[1].device_file].q = << >>
    /\ kfd[REMOTES[1].device_file].part = 0
    /\ ~kfd[REMOTES[1].device_file].hup
    /\ events = 2
    /\ to_cw = << >>

\* The snapshot holds a handle whose device is gone: poll reports its
\* descriptor ready, and the read on it returns -1.
NegativeRead == \E i \in 1..Len(remote_controls) : kfd[remote_controls[i].device_file].hup

ConstructionStep ==
    /\ wpc \in {"scan", "scan_wait", "add_lock", "add_wait"}
    /\ wpc' # wpc \/ scanRest' # scanRest

\* C18: a step of the construction of a handle either registers the handle
\* or leaves the descriptors, the grabs and the registry as they were.  A
\* handle is registered by the step that found the event file present,
\* opened it on a descriptor that was closed, and took the grab on that
\* descriptor.
C18_FailedConstructionLeavesNothing ==
    [][ ConstructionStep =>
          IF REMOTES' # REMOTES
          THEN /\ wpc \in {"scan_wait", "add_wait"}
               /\ PathExists(wnew.device_event_path)
               /\ Len(REMOTES') = Len(REMOTES) + 1
               /\ LET h == REMOTES'[Len(REMOTES')]
                      fd == h.device_file
                  IN  /\ h.lirc_path = wnew.lirc_path
                      /\ ~kfd[fd].open
                      /\ kfd'[fd].open
                      /\ kfd'[fd].dev = DevOf(wnew.device_event_path)
                      /\ kfd'[fd].grabbed
                      /\ GrabHolders(Kernel, kfd'[fd].dev) = {}
                      /\ \A g \in Fds \ {fd} : kfd'[g] = kfd[g]
          ELSE /\ kfd' = kfd
               /\ strong' = strong
      ]_vars

\* The scan has passed lirc0, whose event file is there but cannot be
\* opened: nothing is registered and no descriptor is open.
C18_Witness ==
    /\ wpc = "scan"
    /\ scanRest = << "lirc1" >>
    /\ << "rc0", "lirc0" >> \in sysfs
    /\ evFile[DevA] # ""
    /\ ~inputGroup
    /\ envChanges = 0
    /\ REMOTES = << >>
    /\ \A fd \in Fds : ~kfd[fd].open

\* The records one read of at most 64 records takes from a queue.
FirstRead(q) == SubSeq(q, 1, IF Len(q) < ReadMax THEN Len(q) ELSE ReadMax)

\* The number of key records that one read of each handle of rcs takes.
RECURSIVE KeysOfOneRead(_)
KeysOfOneRead(rcs) ==
    IF rcs = << >> THEN 0
    ELSE LET f == kfd[Head(rcs).device_file]
         IN  (IF f.hup THEN 0 ELSE Len(KeyRecords(FirstRead(f.q))))
             + KeysOfOneRead(Tail(rcs))

\* C19: in a cycle of the poller every descriptor that poll reported ready
\* is read once and no other descriptor is read: the queue of a ready
\* descriptor loses its first 64 records, or all of them when it holds
\* fewer, and the other queues stay as they were.  The key records that
\* were read are forwarded, and the records behind the first 64 stay in
\* the queue for the read of a later cycle.
C19_OneBoundedReadPerReadyDescriptor ==
    [][ (ppc = "poll" /\ ppc' # "poll") =>
          /\ \A i \in 1..Len(remote_controls) :
                LET fd == remote_controls[i].device_file
                    q == kfd[fd].q
                IN  (kfd'[fd].open /\ ~kfd[fd].hup) =>
                        kfd'[fd].q = SubSeq(q, Len(FirstRead(q)) + 1, Len(q))
          /\ Len(to_cw') = Len(to_cw) + KeysOfOneRead(remote_controls)
          /\ SubSeq(to_cw', 1, Len(to_cw)) = to_cw
      ]_vars

\* C20: the step of the poller that takes an empty snapshot does not go to
\* the multiplexed wait but to an idle step (a sleep), from which the next
\* cycle starts; with a snapshot that is not empty it goes to the wait.
C20_EmptySnapshotIdles ==
    [][ (ppc = "clone" /\ ppc' # "clone") =>
          IF remote_controls' = << >>
          THEN /\ ppc' # "poll"
               /\ ppc' = "sleep"
          ELSE ppc' = "poll"
      ]_vars

\* C21: a cycle of the poller that reads a key record from a registered
\* handle does not end in a panic, whatever the frontend list of the
\* handle is, the empty list included, and the key records read are
\* forwarded.
C21_FrontendListNeverStopsPoller ==
    [][ ( /\ ppc = "poll" /\ ppc' # "poll"
          /\ \E i \in 1..Len(remote_controls) :
                LET f == kfd[remote_controls[i].device_file]
                IN  ~f.hup /\ KeyRecords(FirstRead(f.q)) # << >> ) =>
            /\ ppc' # "panicked"
            /\ Len(to_cw') = Len(to_cw) + KeysOfOneRead(remote_controls)
      ]_vars

\* C22: the poller is never blocked in the multiplexed wait while a handle
\* of the registry has a key record pending: one of the descriptors it
\* waits on is ready then, so that a fair scheduler runs the cycle that
\* forwards the key.  A handle added during the wait does not depend on
\* the handles of the wait-set becoming readable.
C22_PendingKeysWakePoller ==
    ( /\ ppc = "poll"
      /\ \E i \in 1..Len(REMOTES) :
            LET f == kfd[REMOTES[i].device_file]
            IN  ~f.hup /\ KeyRecords(f.q) # << >> ) =>
        \E i \in 1..Len(pollfds) : Revents(Kernel, pollfds[i].fd) # 0

\* C23: while the poller is in a cycle, the i-th entry of the wait-set is
\* the descriptor of the i-th handle of the snapshot, that descriptor is
\* open on the event device of the handle, whether or not the handle is
\* still in the registry, and no other handle of the snapshot has it; so
\* what is read from it is tagged with the frontend of its own device.
C23_WaitSetMatchesSnapshot ==
    ppc = "poll" =>
        /\ Len(pollfds) = Len(remote_controls)
        /\ \A i \in 1..Len(pollfds) :
              LET h == remote_controls[i]
                  fd == pollfds[i].fd
              IN  /\ fd = h.device_file
                  /\ kfd[fd].open
                  /\ kfd[fd].dev = DevOf(h.device_event_path)
                  /\ strong[fd] >= 1
                  /\ h.frontend_ids =
                        find_frontends_for_remote_control(h.sys_rc_path).rv
                  /\ \A j \in 1..Len(pollfds) : j # i => pollfds[j].fd # fd

\* The poller waits on the descriptor of a handle that has been removed
\* from the registry during the wait.
C23_Witness ==
    /\ ppc = "poll"
    /\ \E i \in 1..Len(remote_controls) :
          /\ remote_controls[i] \notin Range(REMOTES)
          /\ kfd[pollfds[i].fd].open

\* The key records that one read of each handle of rcs takes, with their
\* handle, in the order of the handles and of the queues.
RECURSIVE KeyRecordsOfOneRead(_)
KeyRecordsOfOneRead(rcs) ==
    IF rcs = << >> THEN << >>
    ELSE LET h == Head(rcs)
             f == kfd[h.device_file]
             keys == IF f.hup THEN << >> ELSE KeyRecords(FirstRead(f.q))
         IN  [i \in 1..Len(keys) |-> << h, keys[i] >>]
             \o KeyRecordsOfOneRead(Tail(rcs))

\* C24: the messages a cycle of the poller adds to the channel are, for
\* the handles it got through, the key records of each read in the order
\* they have in the buffer, behind the messages sent before, which stay
\* as they were; and what a read leaves in the queue of an open descriptor
\* keeps its order, so that the next read of the device continues where
\* this one stopped.
C24_KeystrokesInQueueOrder ==
    [][ (ppc = "poll" /\ ppc' # "poll") =>
          \E n \in 0..Len(remote_controls) :
              LET keys == KeyRecordsOfOneRead(SubSeq(remote_controls, 1, n))
                  sent == Len(to_cw)
              IN  /\ Len(to_cw') = sent + Len(keys)
                  /\ SubSeq(to_cw', 1, sent) = to_cw
                  /\ \A k \in 1..Len(keys) :
                        /\ keys[k][1].frontend_ids # << >>
                        /\ to_cw'[sent + k].tk.frontend_id = keys[k][1].frontend_ids[1]
                        /\ to_cw'[sent + k].tk.keystroke = [hi |-> 0, lo |-> keys[k][2].code]
                        /\ to_cw'[sent + k].tk.value = [hi |-> 0, lo |-> keys[k][2].value]
                  /\ \A i \in 1..n :
                        LET fd == remote_controls[i].device_file
                            q == kfd[fd].q
                        IN  (kfd'[fd].open /\ ~kfd[fd].hup) =>
                                kfd'[fd].q = SubSeq(q, Len(FirstRead(q)) + 1, Len(q))
      ]_vars

\* The release of the first key and repeats of the second have been
\* forwarded: at least two reads of the same device.
C24_Witness ==
    /\ Len(to_cw) > ReadMax + 1
    /\ ppc = "lock"

\* C25: FrontendDisappeared { fei } takes out of the button list one
\* button of frontend fei, and its widget out of the frontends box, and
\* leaves the other buttons in place; when no button has frontend fei,
\* the empty list included, the control window stays as it is and the
\* GTK thread runs on.
C25_RemoveFrontendTakesTheButton ==
    [][ \A fei \in FrontendIds :
          FrontendDisappeared(fei) =>
              LET buttons == control_window.control_window_buttons
                  found == {i \in 1..Len(buttons) : buttons[i].frontend_id = fei}
              IN  /\ gtk_main' = "running"
                  /\ IF found = {}
                     THEN control_window' = control_window
                     ELSE \E k \in found :
                            /\ control_window'.control_window_buttons =
                                   VecRemove(buttons, k - 1)
                            /\ control_window'.frontends_box =
                                   BoxRemove(control_window.frontends_box,
                                             buttons[k].widget)
      ]_vars

\* C26: the GTK thread never panics with "Inconsistent state of
\* frontend,": toggle_button finds a frontend window when the button has
\* been deactivated and none when it creates one.
C26_ToggleButtonConsistent ==
    gtk_main # "Inconsistent state of frontend,"

====
